---- MODULE Spec2Model ----
(***************************************************************************)
(* The fridge of cerbero (src/cerbero/build/fridge.py): the binary cache   *)
(* orchestrator Fridge and its FTP backend FtpBinaryRemote, for one        *)
(* orchestrator instance, one cache namespace and one package name.        *)
(*                                                                         *)
(* A file is a tuple: << >> when it does not exist, << c >> when it holds  *)
(* content c.  An artifact's content is a number: 1..NBytes are the        *)
(* packed tarballs, 0 is the empty file an interrupted transfer leaves     *)
(* behind (the destination is opened for writing before the first block).  *)
(* A sidecar's content is its text split in tokens, << >> for empty text.  *)
(*                                                                         *)
(* The backend calls are modelled step by step, one action per network     *)
(* operation, each with the local code that follows it up to the next      *)
(* network operation.  Every network operation either succeeds or raises   *)
(* a transport fault.  One call runs at a time (single writer).            *)
(***************************************************************************)
EXTENDS Integers, Sequences, FiniteSets, TLC

\* Number of distinct non-empty artifact contents.
NBytes == 2

VARIABLES
    rArt,             \* remote: <remote_dir>/<package_name>
    rSha,             \* remote: <remote_dir>/<package_name>.sha256
    rEnv,             \* remote: <remote_dir>/ENVIRONMENT
    lDir,             \* local: the directory <binaries_local>/<env_checksum> exists
    lArt,             \* local: <local_dir>/<package_name>
    lSha,             \* local: <local_dir>/<package_name>.sha256
    lEnv,             \* local: <local_dir>/ENVIRONMENT
    binaries_remote,  \* Fridge.binaries_remote is configured (not None)
    env_checksum,     \* Fridge.env_checksum
    env_file,         \* Fridge.env_file has been assigned
    pc,               \* position of the running backend call, "idle" between calls
    remote_sha256,    \* fetch_binary's local of that name
    result,           \* how the last finished call ended
    call,             \* record of the running (or last finished) call
    uploaded,         \* content of the last named upload that returned normally
    session,          \* the FTP connection of the running backend call
    program_files,    \* the host defines PROGRAMFILES(X86) or PROGRAMFILES
    installed,        \* the <prefix>/<suffix> files that exist under Program Files
    custom_install,   \* what the custom vs_install_path is on the host
    lookup            \* the last get_vcvarsall call: its arguments and its outcome

vars == << rArt, rSha, rEnv, lDir, lArt, lSha, lEnv, binaries_remote,
           env_checksum, env_file, pc, remote_sha256, result, call, uploaded,
           session, program_files, installed, custom_install, lookup >>

remoteVars == << rArt, rSha, rEnv >>
localVars == << lDir, lArt, lSha, lEnv >>
fridgeVars == << binaries_remote, env_checksum, env_file >>
vsVars == << program_files, installed, custom_install, lookup >>

----------------------------------------------------------------------------
\* Files and their contents

NoFile == << >>

File(c) == << c >>

Exists(f) == f # NoFile

Content(f) == f[1]

None == "None"

PackageName == "pkg-devel.tar.bz2"

\* shell.file_sha256(f).hex(): a digest, one per content
Sha256Hex(c) == << "sha256", c >>

\* '%s %s' % (sha256.hex(), package_name)
SidecarText(hex, name) == << hex, name >>

EmptyText == << >>

\* file.read().split(' ')[0]: the leading token, '' for an empty text
SplitSpaceFirst(text) == IF text = EmptyText THEN << >> ELSE text[1]

\* file.read().split()[0] raises IndexError on an empty text
SplitFirstRaises(text) == text = EmptyText

SplitFirst(text) == text[1]

\* ftp.upload(local, remote) and ftp.download(remote, local), completed: the
\* destination holds the source's content
Transferred(source) == source

\* a transfer that broke: the destination is as it was, or was opened for
\* writing and holds nothing
Broken(destination, opened, nothing) ==
    IF opened THEN File(nothing) ELSE destination

\* ftp.file_exists(path), ftp.exists(path)
RemoteExists(f) == Exists(f)

\* config.get_checksum()[:8]
Fingerprint == "a1b2c3d4"

\* '%s\n\n%s' % (self.env_checksum, self.config.get_string_for_checksum())
EnvText == << Fingerprint, "config" >>

\* An ENVIRONMENT file some earlier run or another writer left
StaleEnvText == << "stale" >>

Bytes == 1..NBytes

\* the recipes the pipeline driver hands to the steps
Recipes ==
    { [allow_package_creation |-> TRUE,  named |-> TRUE,  files |-> TRUE],
      [allow_package_creation |-> FALSE, named |-> TRUE,  files |-> TRUE],
      [allow_package_creation |-> TRUE,  named |-> FALSE, files |-> FALSE],
      [allow_package_creation |-> TRUE,  named |-> TRUE,  files |-> FALSE] }

\* Fridge._get_package_name: tar.get_name(PackageType.DEVEL)
GetPackageName(recipe) == IF recipe.named THEN PackageName ELSE ""

----------------------------------------------------------------------------
\* Bookkeeping of the calls (history, read by the properties only)

NoPrev == [is |-> FALSE, art |-> NoFile, sent |-> 0]

\* how many of the two publications (sidecar, artifact) a call completed
Sent(ops) ==
    Cardinality({i \in DOMAIN ops : ops[i] \in {"upload_sha256", "upload_artifact"}})

\* the call that has just finished, if it was a named upload that returned normally
PrevUpload ==
    IF call.op = "upload" /\ call.named /\ result = "ok"
    THEN [is |-> TRUE, art |-> lArt, sent |-> Sent(call.ops)]
    ELSE NoPrev

NewCall(op, name, named) ==
    [op |-> op, name |-> name, named |-> named,
     lArt0 |-> lArt, lSha0 |-> lSha, rArt0 |-> rArt, rSha0 |-> rSha, rEnv0 |-> rEnv,
     ops |-> << >>, fault |-> FALSE, hashfail |-> FALSE,
     prev |-> IF op = "upload" THEN PrevUpload ELSE NoPrev,
     allow |-> TRUE, files |-> TRUE, ready |-> FALSE, computed |-> FALSE,
     local_dir |-> << >>, remote_dir |-> None, probefail |-> FALSE,
     outside |-> {}, cancelled |-> FALSE]

\* line 289: os.path.join(self.config.binaries_local, self.env_checksum)
BinariesLocal(checksum) == << "binaries_local", checksum >>

\* a remote directory that is the same for every fingerprint
RemoteDir_Shared(checksum) == ""

\* lines 221, 236 and 282: the remote directory handed to the backend
RemoteDir(checksum) == checksum

\* line 170: tempfile.NamedTemporaryFile(), the local copy of the remote sidecar
TempFile == "tempfile"

\* line 254: self.config.prefix, where the archive is unpacked
Prefix == "prefix"

\* the record of a pipeline step that starts: the recipe it was given (its
\* manifest only for generate, the one step that reads it), what
\* _ensure_ready did (outcome r) and the directories the step works in
StepCall(op, recipe, r, named) ==
    [NewCall(op, GetPackageName(recipe), named) EXCEPT
        !.allow = recipe.allow_package_creation,
        !.files = IF op = "generate" THEN recipe.files ELSE TRUE,
        !.ready = (r.err = "none"),
        !.computed = r.computed,
        !.local_dir = IF r.err = "none" THEN BinariesLocal(r.env_checksum) ELSE << >>,
        !.remote_dir = IF r.err = "none" THEN RemoteDir(r.env_checksum) ELSE None]

Logged(op, faulted) ==
    [call EXCEPT !.ops = Append(@, op), !.fault = @ \/ faulted]

\* line 114: the value fetch_binary's remote_sha256 holds before the sidecar is read
Unread == << "remote_sha256" >>

\* Ftp.__exit__ and aioftp's ClientSession.__aexit__: the state they leave
\* the connection in
SessionExit == "closed"

\* a call that closes its connection by hand before it returns, and so not
\* when it raises
Finish_ClosesOnReturnOnly(res) ==
    /\ pc' = "idle" /\ result' = res /\ remote_sha256' = Unread
    /\ session' = IF res = "ok" \/ session = "closed" THEN "closed" ELSE "open"

\* lines 99, 107 and 150: the connection is held in a with block, which
\* exits when the call returns or raises
Finish(res) ==
    pc' = "idle" /\ result' = res /\ remote_sha256' = Unread /\ session' = SessionExit

\* the backend call enters its with block, or goes on inside it
Goto(label) == pc' = label /\ result' = "running" /\ session' = "open"

----------------------------------------------------------------------------
\* Fridge._ensure_ready

\* lines 295-297: the descriptor is written only when the file does not exist
EnsureEnvFile(f) == IF f = NoFile THEN File(EnvText) ELSE f

\* _ensure_ready without the test of self.env_checksum: every step computes
\* the checksum anew
EnsureReady_Recomputes(recipe) ==
    LET same == [err |-> "none", env_checksum |-> env_checksum, lDir |-> lDir,
                 lEnv |-> lEnv, env_file |-> env_file, computed |-> FALSE]
    IN  IF ~recipe.allow_package_creation
        THEN [same EXCEPT !.err = "RecipeNotFreezableError"]
        ELSE IF ~binaries_remote
        THEN [same EXCEPT !.err = "FatalError", !.env_checksum = Fingerprint,
                          !.computed = TRUE]
        ELSE [err |-> "none", env_checksum |-> Fingerprint, lDir |-> TRUE,
              lEnv |-> EnsureEnvFile(lEnv), env_file |-> TRUE, computed |-> TRUE]

\* _ensure_ready without the test of the recipe's flag
EnsureReady_FlagIgnored(recipe) ==
    LET same == [err |-> "none", env_checksum |-> env_checksum, lDir |-> lDir,
                 lEnv |-> lEnv, env_file |-> env_file, computed |-> FALSE]
    IN  IF env_checksum # None
        THEN same
        ELSE IF ~binaries_remote
        THEN [same EXCEPT !.err = "FatalError", !.env_checksum = Fingerprint,
                          !.computed = TRUE]
        ELSE [err |-> "none", env_checksum |-> Fingerprint, lDir |-> TRUE,
              lEnv |-> EnsureEnvFile(lEnv), env_file |-> TRUE, computed |-> TRUE]

\* the outcome of _ensure_ready(recipe): the error it raises ("none" when it
\* returns) and the readiness state it leaves
EnsureReady(recipe) ==
    LET same == [err |-> "none", env_checksum |-> env_checksum, lDir |-> lDir,
                 lEnv |-> lEnv, env_file |-> env_file, computed |-> FALSE]
    IN  IF ~recipe.allow_package_creation
        THEN [same EXCEPT !.err = "RecipeNotFreezableError"]
        ELSE IF env_checksum # None
        THEN same
        ELSE IF ~binaries_remote
        THEN [same EXCEPT !.err = "FatalError", !.env_checksum = Fingerprint,
                          !.computed = TRUE]
        ELSE [err |-> "none", env_checksum |-> Fingerprint, lDir |-> TRUE,
              lEnv |-> EnsureEnvFile(lEnv), env_file |-> TRUE, computed |-> TRUE]

\* the part of a step's effect that _ensure_ready decides
Readied(r) ==
    /\ env_checksum' = r.env_checksum
    /\ lDir' = r.lDir
    /\ lEnv' = r.lEnv
    /\ env_file' = r.env_file
    /\ UNCHANGED binaries_remote

----------------------------------------------------------------------------
\* FtpBinaryRemote.fetch_binary

\* lines 121-127: no download when the local file exists and hashes to the
\* sidecar's hash; an exception while hashing is swallowed
\* the local file is never trusted: every fetch goes on to the download
DownloadNeeded_Always(local, expected, hashRaises) == TRUE

DownloadNeeded(local, expected, hashRaises) ==
    ~(Exists(local) /\ ~hashRaises /\ Sha256Hex(Content(local)) = expected)

\* a handler that leaves the file where it is
Removed_Kept(f) == f

\* lines 139-142: os.remove of the file when it exists
Removed(f) == NoFile

\* line 145: the downloaded file's hash against the sidecar's
HashMismatch(expected, localFile) == expected # Sha256Hex(Content(localFile))

\* Fridge.fetch_binary up to the backend's first network operation
FridgeFetch(recipe) ==
    /\ pc = "idle"
    /\ LET r == EnsureReady(recipe)
           package_name == GetPackageName(recipe)
       IN  /\ Readied(r)
           /\ call' = StepCall("fetch", recipe, r, package_name # "")
           /\ IF r.err # "none" THEN Finish(r.err)
              ELSE IF ~binaries_remote THEN Finish("AttributeError")
              ELSE IF package_name = "" THEN Finish("ok")
              ELSE Goto("f_sha") /\ UNCHANGED remote_sha256
    /\ UNCHANGED << remoteVars, lArt, lSha, uploaded >>
    /\ UNCHANGED vsVars

\* line 116-127: download of the sidecar, then the look at the local artifact
FetchSidecar ==
    /\ pc = "f_sha"
    /\ \E fault \in BOOLEAN, hashRaises \in BOOLEAN, opened \in BOOLEAN :
        IF fault
        THEN \* the transfer breaks, before or after the local file was opened
             /\ ~hashRaises
             /\ lSha' = Broken(lSha, opened, EmptyText)
             /\ call' = Logged("download_sha256", TRUE)
             /\ Finish("FtpError")
        ELSE IF ~RemoteExists(rSha)
        THEN \* no such remote file: the client raises its status code error
             /\ ~hashRaises /\ ~opened
             /\ call' = Logged("download_sha256", FALSE)
             /\ Finish("FtpError")
             /\ UNCHANGED lSha
        ELSE /\ opened
             /\ hashRaises => Exists(lArt)
             /\ lSha' = Transferred(rSha)
             /\ call' = [Logged("download_sha256", FALSE) EXCEPT !.hashfail = hashRaises]
             /\ LET expected == SplitSpaceFirst(Content(rSha))
                IN  IF DownloadNeeded(lArt, expected, hashRaises)
                    THEN Goto("f_exists") /\ remote_sha256' = expected
                    ELSE Finish("ok")
    /\ UNCHANGED << remoteVars, lDir, lArt, lEnv, fridgeVars, uploaded >>
    /\ UNCHANGED vsVars

\* lines 131-132 and 135-143: the remote artifact's existence check
FetchExists ==
    /\ pc = "f_exists"
    /\ \E fault \in BOOLEAN :
        /\ call' = Logged("exists", fault)
        /\ IF ~fault /\ RemoteExists(rArt)
           THEN Goto("f_download") /\ UNCHANGED << lArt, lSha, remote_sha256 >>
           ELSE /\ lArt' = Removed(lArt)
                /\ lSha' = Removed(lSha)
                /\ Finish("PackageNotFoundError")
    /\ UNCHANGED << remoteVars, lDir, lEnv, fridgeVars, uploaded >>
    /\ UNCHANGED vsVars

\* lines 133-134 and 137-147: the download of the artifact, and the comparison
FetchDownload ==
    /\ pc = "f_download"
    /\ \E fault \in BOOLEAN :
        /\ call' = Logged("download_artifact", fault)
        /\ IF fault
           THEN \* whatever the broken transfer wrote is removed
                /\ lArt' = Removed(lArt)
                /\ lSha' = Removed(lSha)
                /\ Finish("PackageNotFoundError")
           ELSE /\ lArt' = Transferred(rArt)
                /\ UNCHANGED lSha
                /\ IF HashMismatch(remote_sha256, lArt')
                   THEN Finish("Exception")
                   ELSE Finish("ok")
    /\ UNCHANGED << remoteVars, lDir, lEnv, fridgeVars, uploaded >>
    /\ UNCHANGED vsVars

\* lines 116, 131 and 133: the task is cancelled while the call is suspended
\* at one of its awaits, and asyncio raises CancelledError there.  The
\* download of line 116 is outside the try block.  Inside it, the handler of
\* line 135 catches Exception: CancelledError is one up to Python 3.7 (caught)
\* and a BaseException from 3.8 on (not caught).
FetchCancel ==
    /\ pc \in {"f_sha", "f_exists", "f_download"}
    /\ \E opened \in BOOLEAN, caught \in BOOLEAN :
        /\ call' = [call EXCEPT !.cancelled = TRUE]
        /\ IF pc = "f_sha"
           THEN /\ ~caught
                /\ lSha' = Broken(lSha, opened, EmptyText)
                /\ UNCHANGED lArt
                /\ Finish("CancelledError")
           ELSE IF caught
           THEN /\ ~opened
                /\ lArt' = Removed(lArt)
                /\ lSha' = Removed(lSha)
                /\ Finish("PackageNotFoundError")
           ELSE /\ opened => pc = "f_download"
                /\ lArt' = Broken(lArt, opened, 0)
                /\ UNCHANGED lSha
                /\ Finish("CancelledError")
    /\ UNCHANGED << remoteVars, lDir, lEnv, fridgeVars, uploaded >>
    /\ UNCHANGED vsVars

----------------------------------------------------------------------------
\* FtpBinaryRemote.upload_binary

\* line 153: the descriptor is uploaded only when the remote has none
\* the existence check left out: the descriptor is uploaded by every call
EnvUploadNeeded_Always(remoteEnv) == TRUE

EnvUploadNeeded(remoteEnv) == ~RemoteExists(remoteEnv)

\* lines 169-181: no upload when the remote sidecar was fetched and its leading
\* token equals the local sidecar's; any exception on the way means upload
\* the comparison left out: every named upload publishes
UploadNeeded_Always(localSidecar, remoteSidecar, fault) == TRUE

\* a probe whose failure is taken for "nothing to upload"
UploadNeeded_FailureSkips(localSidecar, remoteSidecar, fault) ==
    /\ ~fault
    /\ RemoteExists(remoteSidecar)
    /\ ~SplitFirstRaises(Content(remoteSidecar))
    /\ SplitFirst(Content(localSidecar)) # SplitFirst(Content(remoteSidecar))

\* lines 169-181: the exceptions the probe swallows: the download of the
\* remote sidecar fails (transport, no such file) or its text has no token
ProbeFails(remoteSidecar, fault) ==
    \/ fault
    \/ ~RemoteExists(remoteSidecar)
    \/ SplitFirstRaises(Content(remoteSidecar))

UploadNeeded(localSidecar, remoteSidecar, fault) ==
    \/ fault
    \/ ~RemoteExists(remoteSidecar)
    \/ SplitFirstRaises(Content(remoteSidecar))
    \/ SplitFirst(Content(localSidecar)) # SplitFirst(Content(remoteSidecar))

\* lines 276-279: os.path.exists(os.path.join(self.binaries_local, package_name))
\* the existence check left out: the name is always handed to the backend
LocalPackageExists_Always(package_name, dir) == TRUE

LocalPackageExists(package_name, dir) ==
    IF package_name = "" THEN dir ELSE Exists(lArt)

\* Fridge.upload_binary up to the backend's first network operation
FridgeUpload(recipe) ==
    /\ pc = "idle"
    /\ LET r == EnsureReady(recipe)
           package_name == GetPackageName(recipe)
           fetch_package == IF LocalPackageExists(package_name, r.lDir)
                            THEN package_name ELSE ""
       IN  /\ Readied(r)
           /\ call' = StepCall("upload", recipe, r, fetch_package # "")
           /\ IF r.err # "none" THEN Finish(r.err)
              ELSE IF ~binaries_remote THEN Finish("AttributeError")
              ELSE Goto("u_env") /\ UNCHANGED remote_sha256
           /\ uploaded' = IF r.err = "none" /\ binaries_remote /\ fetch_package # ""
                          THEN NoFile ELSE uploaded
    /\ UNCHANGED << remoteVars, lArt, lSha >>
    /\ UNCHANGED vsVars

\* lines 156-167: after the descriptor step; stop without a name, else hash the
\* local artifact and write the local sidecar
AfterDescriptor ==
    IF ~call.named
    THEN Finish("ok") /\ UNCHANGED lSha
    ELSE IF ~Exists(lArt)
    THEN \* shell.file_sha256 cannot open the file
         Finish("FileNotFoundError") /\ UNCHANGED lSha
    ELSE /\ lSha' = File(SidecarText(Sha256Hex(Content(lArt)), PackageName))
         /\ Goto("u_probe") /\ UNCHANGED remote_sha256

\* line 153: ftp.file_exists(remote_env_file)
UploadEnvExists ==
    /\ pc = "u_env"
    /\ \E fault \in BOOLEAN :
        /\ call' = Logged("env_exists", fault)
        /\ IF fault THEN Finish("FtpError") /\ UNCHANGED lSha
           ELSE IF EnvUploadNeeded(rEnv)
           THEN Goto("u_envput") /\ UNCHANGED << lSha, remote_sha256 >>
           ELSE AfterDescriptor
    /\ UNCHANGED << remoteVars, lDir, lArt, lEnv, fridgeVars, uploaded >>
    /\ UNCHANGED vsVars

\* line 155: ftp.upload(env_file, remote_env_file)
UploadEnvFile ==
    /\ pc = "u_envput"
    /\ \E fault \in BOOLEAN, opened \in BOOLEAN :
        /\ call' = Logged("upload_env", fault)
        /\ IF fault
           THEN /\ rEnv' = Broken(rEnv, opened, EmptyText)
                /\ Finish("FtpError") /\ UNCHANGED lSha
           ELSE /\ opened
                /\ rEnv' = Transferred(lEnv)
                /\ AfterDescriptor
    /\ UNCHANGED << rArt, rSha, lDir, lArt, lEnv, fridgeVars, uploaded >>
    /\ UNCHANGED vsVars

\* lines 169-181 and 186-187: the probe of the remote sidecar
UploadProbe ==
    /\ pc = "u_probe"
    /\ \E fault \in BOOLEAN :
        /\ call' = [Logged("download_sha256", fault) EXCEPT
                      !.probefail = ProbeFails(rSha, fault),
                      !.outside = {TempFile}]
        /\ IF UploadNeeded(lSha, rSha, fault)
           THEN Goto("u_sha") /\ UNCHANGED << remote_sha256, uploaded >>
           ELSE Finish("ok") /\ uploaded' = lArt
    /\ UNCHANGED << remoteVars, localVars, fridgeVars >>
    /\ UNCHANGED vsVars

\* line 184: ftp.upload(local_sha256_filename, remote_sha256_filename)
UploadSidecar ==
    /\ pc = "u_sha"
    /\ \E fault \in BOOLEAN, opened \in BOOLEAN :
        IF fault
        THEN /\ rSha' = Broken(rSha, opened, EmptyText)
             /\ call' = Logged("broken_upload_sha256", TRUE)
             /\ Finish("FtpError")
        ELSE /\ opened
             /\ rSha' = Transferred(lSha)
             /\ call' = Logged("upload_sha256", FALSE)
             /\ Goto("u_artifact") /\ UNCHANGED remote_sha256
    /\ UNCHANGED << rArt, rEnv, localVars, fridgeVars, uploaded >>
    /\ UNCHANGED vsVars

\* line 185: ftp.upload(local_filename, remote_filename)
UploadArtifact ==
    /\ pc = "u_artifact"
    /\ \E fault \in BOOLEAN, opened \in BOOLEAN :
        IF fault
        THEN /\ rArt' = Broken(rArt, opened, 0)
             /\ call' = Logged("broken_upload_artifact", TRUE)
             /\ Finish("FtpError")
             /\ UNCHANGED uploaded
        ELSE /\ opened
             /\ rArt' = Transferred(lArt)
             /\ call' = Logged("upload_artifact", FALSE)
             /\ Finish("ok")
             /\ uploaded' = lArt
    /\ UNCHANGED << rSha, rEnv, localVars, fridgeVars >>
    /\ UNCHANGED vsVars

----------------------------------------------------------------------------
\* Fridge.generate_binary

\* lines 260-270, in order
PackagingEffects ==
    << "pre_package", "update_installed_files", "pack_files", "post_package" >>

\* generate_binary without the test of the manifest
GenerateEffects_NoEmptyCheck(files, dirExists) ==
    IF ~dirExists
    THEN [err |-> "OSError", ops |-> SubSeq(PackagingEffects, 1, 2)]
    ELSE [err |-> "none", ops |-> PackagingEffects]

\* lines 260-270: what generate_binary calls and how it ends, for a manifest
\* that is empty or not; pack_files cannot write into a missing directory
GenerateEffects(files, dirExists) ==
    IF ~files
    THEN [err |-> "EmptyPackageError", ops |-> SubSeq(PackagingEffects, 1, 1)]
    ELSE IF ~dirExists
    THEN [err |-> "OSError", ops |-> SubSeq(PackagingEffects, 1, 2)]
    ELSE [err |-> "none", ops |-> PackagingEffects]

FridgeGenerate(recipe) ==
    /\ pc = "idle"
    /\ LET r == EnsureReady(recipe)
           g == GenerateEffects(recipe.files, r.lDir)
       IN  /\ Readied(r)
           /\ IF r.err # "none"
              THEN /\ call' = StepCall("generate", recipe, r, recipe.named)
                   /\ Finish(r.err) /\ UNCHANGED lArt
              ELSE /\ call' = [StepCall("generate", recipe, r, recipe.named)
                                 EXCEPT !.ops = g.ops]
                   /\ IF g.err # "none"
                      THEN Finish(g.err) /\ UNCHANGED lArt
                      ELSE /\ \E b \in Bytes : lArt' = File(b)
                           /\ Finish("ok")
    /\ UNCHANGED << remoteVars, lSha, uploaded >>
    /\ UNCHANGED vsVars

----------------------------------------------------------------------------
\* Fridge.extract_binary

\* lines 252-253: tarclass.open(path, 'r:bz2') of the local artifact
TarOpenError(artifact) ==
    IF ~Exists(artifact) THEN "FileNotFoundError"
    ELSE IF Content(artifact) = 0 THEN "ReadError"
    ELSE "none"

\* the archive is unpacked into the install prefix, outside the cache
FridgeExtract(recipe) ==
    /\ pc = "idle"
    /\ LET r == EnsureReady(recipe)
           package_name == GetPackageName(recipe)
           opened == r.err = "none" /\ package_name # "" /\ TarOpenError(lArt) = "none"
       IN  /\ Readied(r)
           /\ call' = [StepCall("extract", recipe, r, package_name # "") EXCEPT
                         !.ops = IF opened THEN << "extract_and_relocate" >> ELSE << >>,
                         !.outside = IF opened THEN {Prefix} ELSE {}]
           /\ IF r.err # "none" THEN Finish(r.err)
              ELSE IF package_name = "" THEN Finish("ok")
              ELSE IF ~opened THEN Finish(TarOpenError(lArt))
              ELSE Finish("ok")
    /\ UNCHANGED << remoteVars, lArt, lSha, uploaded >>
    /\ UNCHANGED vsVars

----------------------------------------------------------------------------
\* Fridge.check_remote_binary_exists and FtpBinaryRemote.binary_exists

\* lines 227-229: the handler of any exception but PackageNotFoundError builds
\* a PackageNotFoundError from package_name, a local that is bound only once
\* line 220 has returned
CollapsedError(nameBound) ==
    IF nameBound THEN "PackageNotFoundError" ELSE "UnboundLocalError"

\* line 100: the path os.path.join(remote.path, remote_dir, package_name) is
\* the directory itself for an empty name
RemotePathExists(package_name) ==
    IF package_name = ""
    THEN RemoteExists(rArt) \/ RemoteExists(rSha) \/ RemoteExists(rEnv)
    ELSE RemoteExists(rArt)

\* lines 209-221 and 227-229: up to the backend's query
FridgeCheck(recipe) ==
    /\ pc = "idle"
    /\ \E versionRaises \in BOOLEAN, nameRaises \in BOOLEAN :
        LET r == EnsureReady(recipe)
            did == IF r.err # "none" THEN << >>
                   ELSE IF versionRaises THEN << "async_built_version" >>
                   ELSE << "async_built_version", "get_package_name" >>
        IN  /\ Readied(r)
            /\ (r.err # "none") => (~versionRaises /\ ~nameRaises)
            /\ versionRaises => ~nameRaises
            /\ call' = [StepCall("check", recipe, r, recipe.named) EXCEPT !.ops = did]
            /\ IF r.err # "none" THEN Finish(r.err)
               ELSE IF versionRaises \/ nameRaises THEN Finish(CollapsedError(FALSE))
               ELSE IF ~binaries_remote THEN Finish(CollapsedError(TRUE))
               ELSE Goto("c_exists") /\ UNCHANGED remote_sha256
    /\ UNCHANGED << remoteVars, lArt, lSha, uploaded >>
    /\ UNCHANGED vsVars

\* lines 94-101 and 221-229: the backend's query and what the step makes of it
CheckExists ==
    /\ pc = "c_exists"
    /\ \E fault \in BOOLEAN :
        /\ call' = Logged("binary_exists", fault)
        /\ IF fault THEN Finish(CollapsedError(TRUE))
           ELSE IF RemotePathExists(call.name) THEN Finish("ok")
           ELSE Finish("PackageNotFoundError")
    /\ UNCHANGED << remoteVars, localVars, fridgeVars, uploaded >>
    /\ UNCHANGED vsVars

----------------------------------------------------------------------------

----------------------------------------------------------------------------
\* get_vcvarsall (src/cerbero/ide/vs/env.py)

\* a toolset key 'vsNN'; the keys differ in their digits only, so that the
\* order of the strings is the order of the numbers
Vs(n) == << "vs", n >>

KeyLess(a, b) == a[2] < b[2]

\* lines 28-54
VCVARSALLS ==
    (Vs(14) :> [prefixes |-> << "Microsoft Visual Studio 14.0" >>,
                suffix |-> "VC/vcvarsall.bat"])
    @@
    (Vs(15) :> [prefixes |-> << "Microsoft Visual Studio/2017/Community",
                                "Microsoft Visual Studio/2017/Professional",
                                "Microsoft Visual Studio/2017/Enterprise",
                                "Microsoft Visual Studio/2017/Preview" >>,
                suffix |-> "VC/Auxiliary/Build/vcvarsall.bat"])
    @@
    (Vs(16) :> [prefixes |-> << "Microsoft Visual Studio/2019/Community",
                                "Microsoft Visual Studio/2019/Professional",
                                "Microsoft Visual Studio/2019/Enterprise",
                                "Microsoft Visual Studio/2019/BuildTools",
                                "Microsoft Visual Studio/2019/Preview" >>,
                suffix |-> "VC/Auxiliary/Build/vcvarsall.bat"])

\* no version requested, no install path given (None or '')
NoVersion == << >>

NoPath == << >>

\* the arguments the callers pass: no version, the known ones, an unknown one
Requests == {NoVersion, Vs(14), Vs(15), Vs(16), Vs(17)}

InstallPaths == {NoPath, << "custom" >>}

\* every place get_vcvarsall looks at under Program Files
Locations ==
    UNION { { << VCVARSALLS[v].prefixes[i], VCVARSALLS[v].suffix >> :
                i \in DOMAIN VCVARSALLS[v].prefixes } : v \in DOMAIN VCVARSALLS }

\* line 85: sorted(keys, reverse=True)
RECURSIVE SortedReverse(_)
SortedReverse(keys) ==
    IF keys = {} THEN << >>
    ELSE LET top == CHOOSE k \in keys : \A other \in keys : ~KeyLess(k, other)
         IN  << top >> \o SortedReverse(keys \ {top})

\* line 107: path.is_file() for program_files / prefix / suffix
IsFile(prefix, suffix) == << prefix, suffix >> \in installed

Returned(path, version) == [err |-> "none", path |-> path, version |-> version]

Raised(err) == [err |-> err, path |-> NoPath, version |-> NoVersion]

\* lines 109-110: the message of the FatalError joins 'versions', a name that
\* is bound nowhere in the function or the module, so building the message
\* raises NameError before FatalError is constructed
NothingFound == Raised("NameError")

\* lines 74-82: _get_custom_vs_install
GetCustomVsInstall(vs_version, vs_install_path) ==
    IF custom_install = "missing" THEN Raised("FatalError")
    ELSE IF custom_install = "empty" THEN Raised("FatalError")
    ELSE Returned(vs_install_path \o << VCVARSALLS[vs_version].suffix >>, vs_version)

\* lines 102-110: the versions in order, each version's prefixes in order
RECURSIVE Search(_, _, _)
Search(vs_versions, k, i) ==
    IF k > Len(vs_versions) THEN NothingFound
    ELSE LET entry == VCVARSALLS[vs_versions[k]]
         IN  IF i > Len(entry.prefixes) THEN Search(vs_versions, k + 1, 1)
             ELSE IF IsFile(entry.prefixes[i], entry.suffix)
             THEN Returned(<< "program_files", entry.prefixes[i], entry.suffix >>,
                           vs_versions[k])
             ELSE Search(vs_versions, k, i + 1)

\* lines 84-110
GetVcvarsallOutcome(vs_version, vs_install_path) ==
    LET known_vs_versions == SortedReverse(DOMAIN VCVARSALLS)
    IN  IF vs_version # NoVersion /\ vs_version \notin DOMAIN VCVARSALLS
        THEN Raised("FatalError")
        ELSE IF vs_install_path # NoPath
        THEN IF vs_version = NoVersion
             THEN Raised("AssertionError")
             ELSE GetCustomVsInstall(vs_version, vs_install_path)
        ELSE LET vs_versions == IF vs_version # NoVersion
                                THEN << vs_version >>
                                ELSE known_vs_versions
             IN  IF ~program_files
                 THEN Raised("FatalError")
                 ELSE Search(vs_versions, 1, 1)

NoLookup ==
    [called |-> FALSE, vs_version |-> NoVersion, vs_install_path |-> NoPath,
     out |-> Raised("none")]

\* one call of get_vcvarsall; it reads the host and changes nothing
GetVcvarsall(vs_version, vs_install_path) ==
    /\ lookup' = [called |-> TRUE, vs_version |-> vs_version,
                  vs_install_path |-> vs_install_path,
                  out |-> GetVcvarsallOutcome(vs_version, vs_install_path)]
    /\ UNCHANGED << remoteVars, localVars, fridgeVars, pc, remote_sha256, result,
                    call, uploaded, session, program_files, installed,
                    custom_install >>

----------------------------------------------------------------------------
NoCall ==
    [op |-> "none", name |-> "", named |-> FALSE,
     lArt0 |-> NoFile, lSha0 |-> NoFile, rArt0 |-> NoFile, rSha0 |-> NoFile,
     rEnv0 |-> NoFile, ops |-> << >>, fault |-> FALSE, hashfail |-> FALSE,
     prev |-> NoPrev,
     allow |-> TRUE, files |-> TRUE, ready |-> FALSE, computed |-> FALSE,
     local_dir |-> << >>, remote_dir |-> None, probefail |-> FALSE,
     outside |-> {}, cancelled |-> FALSE]

\* The remote namespace holds what earlier successful uploads left: nothing, or
\* an artifact with its sidecar.  The local directory, when it exists, holds
\* what earlier runs left.
Init ==
    /\ \E b \in Bytes :
          \/ rArt = NoFile /\ rSha = NoFile
          \/ rArt = File(b) /\ rSha = File(SidecarText(Sha256Hex(b), PackageName))
    /\ rEnv \in {NoFile, File(EnvText), File(StaleEnvText)}
    /\ lDir \in BOOLEAN
    /\ lArt \in IF lDir THEN {NoFile} \cup {File(b) : b \in Bytes} ELSE {NoFile}
    /\ lSha \in IF lDir
                THEN {NoFile} \cup {File(SidecarText(Sha256Hex(b), PackageName)) : b \in Bytes}
                ELSE {NoFile}
    /\ lEnv \in IF lDir THEN {NoFile, File(EnvText), File(StaleEnvText)} ELSE {NoFile}
    /\ binaries_remote \in BOOLEAN
    /\ env_checksum = None
    /\ env_file = FALSE
    /\ pc = "idle"
    /\ remote_sha256 = Unread
    /\ result = "none"
    /\ call = NoCall
    /\ uploaded = NoFile
    /\ session = "closed"
    /\ program_files = FALSE
    /\ installed = {}
    /\ custom_install = "missing"
    /\ lookup = NoLookup

Next ==
    \/ \E recipe \in Recipes : FridgeFetch(recipe)
    \/ FetchSidecar
    \/ FetchExists
    \/ FetchDownload
    \/ \E recipe \in Recipes : FridgeUpload(recipe)
    \/ UploadEnvExists
    \/ UploadEnvFile
    \/ UploadProbe
    \/ UploadSidecar
    \/ UploadArtifact
    \/ \E recipe \in Recipes : FridgeGenerate(recipe)
    \/ FetchCancel
    \/ \E recipe \in Recipes : FridgeExtract(recipe)
    \/ \E recipe \in Recipes : FridgeCheck(recipe)
    \/ CheckExists

Spec == Init /\ [][Next]_vars

\* The toolset lookup on any host: Program Files with any of the searched
\* files (none when the host defines no Program Files directory), the custom
\* install path missing, a directory without the file, or complete.  The
\* fridge is at rest.
InitVs ==
    /\ rArt = NoFile /\ rSha = NoFile /\ rEnv = NoFile
    /\ lDir = FALSE /\ lArt = NoFile /\ lSha = NoFile /\ lEnv = NoFile
    /\ binaries_remote = FALSE
    /\ env_checksum = None
    /\ env_file = FALSE
    /\ pc = "idle"
    /\ remote_sha256 = Unread
    /\ result = "none"
    /\ call = NoCall
    /\ uploaded = NoFile
    /\ session = "closed"
    /\ program_files \in BOOLEAN
    /\ installed \in IF program_files THEN SUBSET Locations ELSE {{}}
    /\ custom_install \in {"missing", "empty", "complete"}
    /\ lookup = NoLookup

NextVs ==
    \E vs_version \in Requests, vs_install_path \in InstallPaths :
        GetVcvarsall(vs_version, vs_install_path)

SpecVs == InitVs /\ [][NextVs]_vars

----------------------------------------------------------------------------
\* What the properties read

Idle == pc = "idle"

\* the leading token of a sidecar file
RecordedHash(sidecar) == SplitSpaceFirst(Content(sidecar))

\* the artifact is the one the sidecar records
Matches(artifact, sidecar) ==
    Exists(artifact) /\ Exists(sidecar)
        /\ Sha256Hex(Content(artifact)) = RecordedHash(sidecar)

\* the backend's fetch_binary ran with a non-empty name and has ended
FetchEnded == Idle /\ call.op = "fetch" /\ call.named /\ call.ops # << >>

\* the backend's upload_binary ran and has ended
UploadEnded == Idle /\ call.op = "upload" /\ call.ops # << >>

----------------------------------------------------------------------------
\* C1 (as claimed): a fetch whose remote sidecar records another hash than the
\* remote artifact's, with no matching local artifact and no transport fault,
\* ends with the integrity exception and leaves no local artifact file.
C1_CorruptionLeavesNoArtifact ==
    (/\ FetchEnded /\ ~call.fault
     /\ Exists(call.rSha0) /\ Exists(call.rArt0)
     /\ ~Matches(call.rArt0, call.rSha0)
     /\ ~Matches(call.lArt0, call.rSha0))
    => (result = "Exception" /\ ~Exists(lArt))

\* C2 (as claimed): in every state, a sidecar present in the remote namespace
\* comes with an artifact in the same namespace whose hash it records.
C2_SidecarImpliesValidArtifact ==
    Exists(rSha) => Matches(rArt, rSha)

\* C3 (as claimed): a fetch that finds no remote artifact (no local artifact
\* before the call, no transport fault) ends with PackageNotFoundError and
\* leaves neither the local artifact nor the local sidecar.
C3_AbsentArtifactIsNotFound ==
    (FetchEnded /\ ~call.fault /\ ~Exists(call.rArt0) /\ ~Exists(call.lArt0))
    => (result = "PackageNotFoundError" /\ ~Exists(lArt) /\ ~Exists(lSha))

\* C4 (as claimed): after a failed fetch that downloaded the sidecar, no local
\* sidecar remains without a local artifact of the hash it records.
C4_FailedFetchLeavesNoOrphan ==
    (FetchEnded /\ result # "ok" /\ ~call.fault /\ Exists(call.rSha0))
    => (Exists(lSha) => Matches(lArt, lSha))

\* C5 (as claimed): once an upload of artifact A has returned normally, a fetch
\* of the same name (no upload in between, no transport fault, no failure to
\* read the local file) returns normally, and leaves A locally with the hash
\* both sidecars record.
C5_RoundTrip ==
    (FetchEnded /\ ~call.fault /\ ~call.hashfail /\ Exists(uploaded))
    => (/\ result = "ok"
        /\ lArt = uploaded
        /\ Matches(lArt, lSha)
        /\ Matches(lArt, rSha))

\* C6: a fetch that finds a local artifact whose hash the remote sidecar
\* records (sidecar downloaded and local file hashed without failure) performs
\* the sidecar download and no other network operation, leaves the local
\* artifact as it was and returns normally.
C6_CacheHit ==
    (FetchEnded /\ ~call.fault /\ ~call.hashfail /\ Matches(call.lArt0, call.rSha0))
    => (/\ result = "ok"
        /\ call.ops = << "download_sha256" >>
        /\ lArt = call.lArt0)

\* a cache hit while the remote artifact itself is gone: nothing looked for it
C6_Witness ==
    /\ FetchEnded /\ ~call.fault /\ ~call.hashfail
    /\ Matches(call.lArt0, call.rSha0)
    /\ ~Exists(rArt)
    /\ result = "ok"

\* the running or ended call is a named upload that directly follows a named
\* upload of the same bytes that returned normally, and has met no fault so far
SecondUpload ==
    /\ call.op = "upload" /\ call.named
    /\ call.prev.is /\ call.prev.art = call.lArt0
    /\ ~call.fault

C8_DedupSoundness ==
    (UploadEnded /\ call.named /\ result = "ok")
    => (Exists(rArt) /\ Sha256Hex(Content(rArt)) = Sha256Hex(Content(lArt)))

\* C9: a descriptor that is present, locally or remotely, keeps its content in
\* every step, and the descriptor upload is performed only when the remote has
\* none.
C9_DescriptorWrittenOnce ==
    [][ /\ Exists(lEnv) => lEnv' = lEnv
        /\ Exists(rEnv) => rEnv' = rEnv
        /\ (pc = "u_envput" /\ pc' # pc) => ~Exists(rEnv) ]_vars

\* an upload has ended that found another writer's descriptor on the remote
\* and left it, the local descriptor being this configuration's
C9_Witness ==
    /\ UploadEnded /\ result = "ok"
    /\ call.rEnv0 = File(StaleEnvText)
    /\ rEnv = File(StaleEnvText)
    /\ lEnv = File(EnvText)

\* C10: an upload step whose local artifact file is missing, or whose recipe
\* has no artifact name, leaves the remote artifact, the remote sidecar and the
\* local sidecar unchanged; without transport fault it returns normally with
\* the remote descriptor present.
C10_GracefulDegradation ==
    (call.op = "upload" /\ call.ops # << >>
        /\ (call.name = "" \/ ~Exists(call.lArt0)))
    => (/\ rArt = call.rArt0 /\ rSha = call.rSha0 /\ lSha = call.lSha0
        /\ (Idle /\ ~call.fault) => (result = "ok" /\ Exists(rEnv)))

\* a named recipe's upload step has ended without local artifact, and it put
\* the descriptor on the remote, which had none
C10_Witness ==
    /\ UploadEnded /\ ~call.fault
    /\ call.name # "" /\ ~Exists(call.lArt0)
    /\ ~Exists(call.rEnv0) /\ Exists(rEnv)
    /\ Exists(rSha)
    /\ result = "ok"

\* the existence-check step has passed _ensure_ready and has ended
CheckEnded == Idle /\ call.op = "check" /\ call.ready

\* C11 (as claimed): once readiness has succeeded, the existence check ends
\* normally only when the backend reported the artifact present, and otherwise
\* with PackageNotFoundError, whatever failed inside the step.
C11_OnlyNotFoundEscapes ==
    CheckEnded
    => (/\ result \in {"ok", "PackageNotFoundError"}
        /\ result = "ok" => (~call.fault /\ RemotePathExists(call.name)))

\* C12 (as claimed): a step gets past _ensure_ready only with the fingerprint
\* resolved, a remote configured, the local namespace directory in place and
\* the descriptor path set and present; without a remote configured every
\* step given a cacheable recipe ends with FatalError.
C12_ReadinessInvariant ==
    /\ call.ready =>
          (/\ env_checksum # None
           /\ binaries_remote
           /\ lDir
           /\ env_file
           /\ Exists(lEnv))
    /\ (call.op # "none" /\ call.allow /\ ~binaries_remote) =>
          (Idle /\ result = "FatalError")

\* C13: a step that is handed a recipe whose allow_package_creation is false
\* ends at once with RecipeNotFreezableError, before any backend operation
\* and without a connection, and leaves the readiness state, the local cache
\* directory and the remote store as they were.
C13_NonCacheableRejected ==
    [][ (pc = "idle" /\ ~call'.allow)
        => (/\ pc' = "idle"
            /\ result' = "RecipeNotFreezableError"
            /\ call'.ops = << >>
            /\ session' = "closed"
            /\ UNCHANGED << remoteVars, localVars, fridgeVars >>) ]_vars

\* an upload step was rejected on a Fridge that is ready and has an artifact
\* to upload
C13_Witness ==
    /\ Idle /\ call.op = "upload" /\ ~call.allow
    /\ result = "RecipeNotFreezableError"
    /\ env_checksum # None /\ binaries_remote /\ Exists(lArt)
    /\ ~Exists(rArt)

\* the directories a ready step hands to the backend carry the fingerprint,
\* and the same one locally and remotely
NamespacedDirs ==
    call.ready =>
        (/\ call.local_dir = BinariesLocal(Fingerprint)
         /\ call.remote_dir = Fingerprint
         /\ call.local_dir[2] = call.remote_dir)

C15_FaultsSurfaceAsNotFound ==
    (/\ FetchEnded /\ call.fault
     /\ RemoteExists(call.rSha0) /\ RemoteExists(call.rArt0))
    => result = "PackageNotFoundError"

\* a truncated file in the local directory that the call itself wrote
PartialSidecar == lSha = File(EmptyText) /\ lSha # call.lSha0

PartialArtifact == lArt = File(0) /\ lArt # call.lArt0

\* C16: when a fetch is cancelled at one of its awaits (sidecar download,
\* existence check, artifact download) and the cancellation reaches the
\* caller, no partially written artifact or sidecar of that call is left in
\* the local directory.
C16_CancelledFetchLeavesNoPartial ==
    (Idle /\ call.op = "fetch" /\ call.cancelled /\ result = "CancelledError")
    => (~PartialSidecar /\ ~PartialArtifact)

GenerateEnded == Idle /\ call.op = "generate" /\ call.ready

\* C17: generate_binary with an empty manifest ends with EmptyPackageError,
\* having packed nothing into the local directory and called no
\* post-packaging hook; with a manifest that is not empty, a generate that
\* returns has called the pre-packaging hook, the manifest refresh, the pack
\* and the post-packaging hook, in this order and once each.
C17_EmptyManifest ==
    GenerateEnded =>
        /\ ~call.files =>
              (/\ result = "EmptyPackageError"
               /\ lArt = call.lArt0
               /\ \A i \in DOMAIN call.ops :
                     call.ops[i] \notin {"pack_files", "post_package"})
        /\ (call.files /\ result = "ok") =>
              call.ops = << "pre_package", "update_installed_files",
                            "pack_files", "post_package" >>
        /\ call.files => result \in {"ok", "OSError"}

\* a generate with an empty manifest ended over an existing local artifact
C17_Witness ==
    /\ GenerateEnded /\ ~call.files
    /\ result = "EmptyPackageError"
    /\ Exists(lArt) /\ lDir

\* an upload of the sidecar or of the artifact broke in this call
UploadBroke ==
    \E i \in DOMAIN call.ops :
        call.ops[i] \in {"broken_upload_sha256", "broken_upload_artifact"}

\* C18: in a named upload, a failure of the probe (remote sidecar absent,
\* transport error, empty sidecar) is not reported: the call goes on to
\* publish the sidecar and the artifact, and unless one of these two uploads
\* itself breaks it returns normally with both published.  The probe step
\* changes neither the local sidecar nor any remote object.
C18_ProbeFailureMeansUpload ==
    /\ [](  (call.op = "upload" /\ call.probefail)
            => /\ pc \in {"u_sha", "u_artifact", "idle"}
               /\ Idle => IF UploadBroke
                          THEN result = "FtpError"
                          ELSE /\ result = "ok"
                               /\ Sent(call.ops) = 2
                               /\ rSha = lSha /\ rArt = lArt )
    /\ [][ pc = "u_probe" => UNCHANGED << remoteVars, localVars >> ]_vars

\* an upload found an empty remote sidecar and published both files
C18_Witness ==
    /\ UploadEnded /\ call.probefail /\ ~call.fault
    /\ call.rSha0 = File(EmptyText)
    /\ result = "ok" /\ Sent(call.ops) = 2
    /\ rSha = lSha /\ rArt = lArt

\* C19: on one Fridge the checksum is computed at most once: a step computes
\* it only while env_checksum is unset, and once env_checksum (with the
\* binaries_local derived from it) and env_file are set no step changes them.
C19_FingerprintComputedOnce ==
    [][ /\ env_checksum # None =>
              (/\ env_checksum' = env_checksum
               /\ pc = "idle" => ~call'.computed)
        /\ (pc = "idle" /\ call'.computed) =>
              (env_checksum = None /\ env_checksum' = Fingerprint)
        /\ env_file => env_file'
        /\ (env_checksum # None /\ call'.ready) =>
              call'.local_dir = BinariesLocal(env_checksum) ]_vars

\* a later step on a Fridge that is ready ran without computing the checksum
C19_Witness ==
    /\ Idle /\ call.ready /\ ~call.computed
    /\ call.op = "upload" /\ call.prev.is
    /\ env_checksum = Fingerprint /\ env_file
    /\ result = "ok"

DownloadAttempted ==
    \E i \in DOMAIN call.ops : call.ops[i] \in {"exists", "download_artifact"}

\* C21: when hashing the local artifact that was there before the call
\* raises, the fetch removes the local artifact and the local sidecar and
\* ends with PackageNotFoundError, without going on to the remote artifact.
C21_HashFailureIsNotFound ==
    (FetchEnded /\ call.hashfail /\ ~call.cancelled)
    => (/\ result = "PackageNotFoundError"
        /\ lArt = NoFile /\ lSha = NoFile
        /\ ~DownloadAttempted)

\* C22: after a PackageNotFoundError of a fetch neither the local artifact
\* nor the local sidecar exists, whatever the local directory held before the
\* call, a local artifact with another hash than the remote sidecar's
\* included.
C22_NotFoundLeavesNothing ==
    (FetchEnded /\ result = "PackageNotFoundError")
    => (lArt = NoFile /\ lSha = NoFile)

\* a fetch over a local artifact that did not hash to the remote sidecar's
\* hash ended with PackageNotFoundError since the remote artifact was absent
C22_Witness ==
    /\ FetchEnded /\ result = "PackageNotFoundError"
    /\ ~call.fault /\ ~call.cancelled /\ ~call.hashfail
    /\ Exists(call.lArt0) /\ Exists(call.lSha0)
    /\ Sha256Hex(Content(call.lArt0)) # RecordedHash(call.rSha0)
    /\ ~RemoteExists(call.rArt0)
    /\ lArt = NoFile /\ lSha = NoFile

----------------------------------------------------------------------------
\* get_vcvarsall

\* the versions a lookup without install path searches
Searched(vs_version) ==
    IF vs_version = NoVersion THEN DOMAIN VCVARSALLS
    ELSE {vs_version} \cap DOMAIN VCVARSALLS

\* the searched places that hold the file, as << version, index of prefix >>
Hits(vs_version) ==
    { h \in UNION { { << v, i >> : i \in DOMAIN VCVARSALLS[v].prefixes } :
                      v \in Searched(vs_version) } :
        IsFile(VCVARSALLS[h[1]].prefixes[h[2]], VCVARSALLS[h[1]].suffix) }

\* h comes no later than g when scanning newest version first, prefixes in
\* listed order
ScannedNoLater(h, g) ==
    \/ KeyLess(g[1], h[1])
    \/ g[1] = h[1] /\ h[2] <= g[2]

SearchEnded == lookup.called /\ lookup.vs_install_path = NoPath

\* the lookup returned the first hit
ReturnedFirstHit ==
    /\ lookup.out.err = "none"
    /\ \E h \in Hits(lookup.vs_version) :
          /\ lookup.out.version = h[1]
          /\ lookup.out.path = << "program_files", VCVARSALLS[h[1]].prefixes[h[2]],
                                  VCVARSALLS[h[1]].suffix >>
          /\ \A g \in Hits(lookup.vs_version) : ScannedNoLater(h, g)

\* C23: get_vcvarsall without install path returns the first hit, scanning
\* the versions from newest to oldest (only the requested one when one is
\* given) and each version's prefixes in listed order; when no searched
\* place holds the file or the requested version is unknown it raises
\* FatalError and no other error.
C23_ToolsetLookup ==
    SearchEnded =>
        IF Hits(lookup.vs_version) # {}
        THEN ReturnedFirstHit
        ELSE lookup.out.err = "FatalError"

====
